---- MODULE Spec2Model ----
(***************************************************************************)
(* A model of the pattern registry of the P&ID tag mapper                  *)
(* (src/js/modules/patternManager.js, class PatternManager), of its tag    *)
(* manager (tagManager.js) and of its instrument matcher                   *)
(* (instrumentMatcher.js).                                                 *)
(*                                                                         *)
(* A JavaScript object that is used as an ordered map (defaultPatterns,    *)
(* userPatterns, the objects carried by an import) is the record           *)
(*     [keys |-> the property names in creation order,                     *)
(*      val  |-> the function from property name to value].                *)
(* A rule object (one pattern) is a function from the names of the fields  *)
(* it has to their values, so that "the field is undefined" is "the name   *)
(* is not in the DOMAIN".  The fields description and created/exportDate   *)
(* are written by the code and read by no operation of the registry; they  *)
(* are left out.  A timestamp (modified) is the token Timestamp.           *)
(***************************************************************************)
EXTENDS Integers, Sequences, FiniteSets, TLC

\* The number of registry calls of one behaviour.
MaxOps == 3

----------------------------------------------------------------------------
(* Regular expressions and texts.  RegExp is modelled on a finite set of   *)
(* sources and a finite set of texts by the table of what each source      *)
(* matches (RegExp.prototype.test, i.e. a search, anchored only where the  *)
(* source anchors it).                                                     *)

LineRegex == "^.+-[A-Z\\d]{1,4}-\\s?\\d{3,5}-[A-Z\\d]{3,7}$"
EquipmentRegex == "^[A-Z\\d]+-[A-Z]{1,2}-\\d{4}$"
InstrumentNumberRegex == "^\\d{4}\\s?[A-Za-z0-9-]{0,3}$"
InstrumentFunctionRegex == "^[A-Z]{2,4}$"
\* Two of the suggestions of getPatternSuggestions.
ShortTagRegex == "^[A-Z]+-\\d{3}[A-Z]?$"
DigitsRegex == "\\d{3,4}"
\* The empty source compiles (to /(?:)/) and is falsy as a string.
EmptyRegex == ""
\* A source that new RegExp rejects (unterminated character class).
BrokenRegex == "["

Texts == { "100-PS-1234-A1B2", "V28-E-0003", "1234", "PT", "P-101" }

\* new RegExp(pattern) does not throw.
Compiles(pattern) == pattern # BrokenRegex

\* new RegExp(pattern).test(text), for a pattern that compiles.
RegexTest(pattern, text) ==
    CASE pattern = LineRegex -> text = "100-PS-1234-A1B2"
      [] pattern = EquipmentRegex -> text = "V28-E-0003"
      [] pattern = InstrumentNumberRegex -> text = "1234"
      [] pattern = InstrumentFunctionRegex -> text = "PT"
      [] pattern = ShortTagRegex -> text = "P-101"
      [] pattern = DigitsRegex ->
            text \in { "100-PS-1234-A1B2", "V28-E-0003", "1234", "P-101" }
      [] pattern = EmptyRegex -> TRUE

----------------------------------------------------------------------------
(* JavaScript objects as ordered maps.                                     *)

Range(s) == { s[i] : i \in 1..Len(s) }

EmptyObject == [keys |-> << >>, val |-> [k \in {} |-> k]]

HasOwn(o, k) == k \in DOMAIN o.val

\* o[k] = v: an existing property keeps its place, a new one goes last.
Put(o, k, v) ==
    [keys |-> IF HasOwn(o, k) THEN o.keys ELSE Append(o.keys, k),
     val  |-> [x \in DOMAIN o.val \cup {k} |-> IF x = k THEN v ELSE o.val[x]]]

\* delete o[k]
Delete(o, k) ==
    [keys |-> SelectSeq(o.keys, LAMBDA x : x # k),
     val  |-> [x \in DOMAIN o.val \ {k} |-> o.val[x]]]

\* The property names that are canonical array indices, with their values.
ArrayIndexValue == [k \in {"7", "12"} |-> IF k = "7" THEN 7 ELSE 12]

IsArrayIndex(k) == k \in DOMAIN ArrayIndexValue

\* Object.keys / Object.entries / spread / Object.assign / JSON.stringify
\* enumerate own properties in this order (OrdinaryOwnPropertyKeys): the
\* array indices in ascending numeric order, then the other names in
\* creation order.
OwnKeys(o) ==
    SortSeq(SelectSeq(o.keys, IsArrayIndex),
            LAMBDA a, b : ArrayIndexValue[a] < ArrayIndexValue[b])
        \o SelectSeq(o.keys, LAMBDA k : ~IsArrayIndex(k))

\* Object.assign(target, source) on ordered maps.
AssignObject(target, source) ==
    [keys |-> target.keys \o SelectSeq(OwnKeys(source), LAMBDA k : ~HasOwn(target, k)),
     val  |-> [k \in DOMAIN target.val \cup DOMAIN source.val |->
                  IF HasOwn(source, k) THEN source.val[k] ELSE target.val[k]]]

\* { ...a, ...b }
Spread(a, b) == AssignObject(AssignObject(EmptyObject, a), b)

\* Object.assign(target, updates) on the fields of one rule object.
AssignFields(target, updates) ==
    [f \in DOMAIN target \cup DOMAIN updates |->
        IF f \in DOMAIN updates THEN updates[f] ELSE target[f]]

\* new Date().toISOString()
Timestamp == "timestamp"

----------------------------------------------------------------------------
(* The registry.                                                           *)

DefaultNames == << "Line_number", "Equipment_number", "Instrument_number",
                   "Instrument_function" >>

\* getOriginalDefaultPattern(name)
getOriginalDefaultPattern(name) ==
    CASE name = "Line_number" ->
            [pattern |-> LineRegex, color |-> "#FFFF00", category |-> "line",
             enabled |-> TRUE]
      [] name = "Equipment_number" ->
            [pattern |-> EquipmentRegex, color |-> "#008000",
             category |-> "equipment", enabled |-> TRUE]
      [] name = "Instrument_number" ->
            [pattern |-> InstrumentNumberRegex, color |-> "#FF0000",
             category |-> "instrument", enabled |-> TRUE]
      [] name = "Instrument_function" ->
            [pattern |-> InstrumentFunctionRegex, color |-> "#0000FF",
             category |-> "instrument", enabled |-> TRUE]

\* The defaultPatterns literal of the constructor.
ConstructedDefaults ==
    [keys |-> DefaultNames,
     val  |-> [n \in Range(DefaultNames) |-> getOriginalDefaultPattern(n)]]

VARIABLES
    defaultPatterns,  \* this.defaultPatterns
    userPatterns,     \* this.userPatterns
    storage,          \* localStorage: the two items the registry writes
    last,             \* the last call: its name, its arguments, whether it
                      \* threw, and the state it was made in
    steps,            \* the number of calls made
    textContent,      \* the text of the loaded document, as its pieces
    textWithPositions,\* the positioned text items of the loaded document
    defaultSearchHeight, \* this.defaultSearchHeight of the InstrumentMatcher
    now,              \* the clock that Date.now() reads
    run               \* the last recognition call: its arguments, what it
                      \* returned, and the state it was made in

vars == << defaultPatterns, userPatterns, storage, last, steps,
           textContent, textWithPositions, defaultSearchHeight, now, run >>

----------------------------------------------------------------------------
(* Reading the registry.                                                   *)

\* A rule's enabled field is truthy.
Enabled(rule) == "enabled" \in DOMAIN rule /\ rule.enabled = TRUE

\* The merge with the operands exchanged: { ...userPatterns, ...defaultPatterns }
allPatternsDefaultsLast(defaults, users) == Spread(users, defaults)

\* allPatterns of getActivePatterns: { ...defaultPatterns, ...userPatterns }
allPatternsOf(defaults, users) == Spread(defaults, users)

\* getActivePatterns() of a registry with these two objects: the enabled
\* entries of allPatterns, added in the order Object.keys gives.
getActivePatternsOf(defaults, users) ==
    LET allPatterns == allPatternsOf(defaults, users)
        active == SelectSeq(OwnKeys(allPatterns),
                            LAMBDA key : Enabled(allPatterns.val[key]))
    IN  [keys |-> active,
         val  |-> [key \in Range(active) |-> allPatterns.val[key]]]

getActivePatterns == getActivePatternsOf(defaultPatterns, userPatterns)

\* A validation that accepts every source.
validateNothing(pattern) == TRUE

\* validatePattern(pattern).valid
validatePattern(pattern) == Compiles(pattern)

\* A test in which a source that does not compile matches every text.
testPatternBrokenMatches(pattern, text) ==
    IF Compiles(pattern) THEN RegexTest(pattern, text) ELSE TRUE

\* testPattern(pattern, text): a source that does not compile matches nothing.
testPattern(pattern, text) ==
    IF Compiles(pattern) THEN RegexTest(pattern, text) ELSE FALSE

\* priorityOrder of findMatchingPattern
priorityOrder == << "Line_number", "Equipment_number", "Instrument_number",
                    "Instrument_function" >>

NoMatch == [match |-> FALSE]

\* The first name of the sequence that satisfies Test, as a match result.
FirstMatch(names, activePatterns, text) ==
    LET hits == SelectSeq(names,
                    LAMBDA n : testPattern(activePatterns.val[n].pattern, text))
    IN  IF hits = << >> THEN NoMatch
        ELSE [match |-> TRUE, name |-> Head(hits),
              pattern |-> activePatterns.val[Head(hits)]]

\* findMatchingPattern(text) over the active set it is given
findMatchingPatternOf(activePatterns, text) ==
    LET first == FirstMatch(
                    SelectSeq(priorityOrder, LAMBDA n : HasOwn(activePatterns, n)),
                    activePatterns, text)
    IN  IF first.match THEN first
        ELSE FirstMatch(
                SelectSeq(OwnKeys(activePatterns),
                          LAMBDA n : n \notin Range(priorityOrder)),
                activePatterns, text)

\* findMatchingPattern(text)
findMatchingPattern(text) == findMatchingPatternOf(getActivePatterns, text)

\* getDefaultOverrides(), and defaultMods of saveUserPatternsToStorage: for
\* each default rule that is modified or disabled, its enabled and modified
\* fields.  These objects leave the registry only through JSON.stringify,
\* which drops a field whose value is undefined.
getDefaultOverridesOf(defaults) ==
    LET names == SelectSeq(OwnKeys(defaults),
                    LAMBDA n : "modified" \in DOMAIN defaults.val[n]
                               \/ ~Enabled(defaults.val[n]))
    IN  [keys |-> names,
         val  |-> [n \in Range(names) |->
                    IF "modified" \in DOMAIN defaults.val[n]
                    THEN [enabled |-> defaults.val[n].enabled,
                          modified |-> defaults.val[n].modified]
                    ELSE [enabled |-> defaults.val[n].enabled]]]

\* exportPatterns()
exportPatternsOf(defaults, users) ==
    [userPatterns |-> users, defaultOverrides |-> getDefaultOverridesOf(defaults)]

\* JSON.parse(JSON.stringify(o)) of an ordered map: the properties are
\* written, and so created again, in enumeration order.
JsonRoundTrip(o) == [keys |-> OwnKeys(o), val |-> o.val]

\* What saveUserPatternsToStorage leaves in localStorage.
savedStorage(defaults, users) ==
    [userPatterns |-> [stored |-> TRUE, item |-> JsonRoundTrip(users)],
     defaultModifications |->
        [stored |-> TRUE, item |-> getDefaultOverridesOf(defaults)]]

\* localStorage before the registry has written anything.
EmptyStorage ==
    [userPatterns |-> [stored |-> FALSE],
     defaultModifications |-> [stored |-> FALSE]]

\* loadUserPatterns()
loadUserPatterns(store) ==
    IF store.userPatterns.stored THEN store.userPatterns.item ELSE EmptyObject

\* loadDefaultModifications() on these default rules: the stored fields of
\* each stored name that is a default name are assigned to its rule.
loadDefaultModificationsOn(defaults, store) ==
    IF store.defaultModifications.stored
    THEN [keys |-> defaults.keys,
          val  |-> [name \in DOMAIN defaults.val |->
              IF HasOwn(store.defaultModifications.item, name)
              THEN AssignFields(defaults.val[name],
                                store.defaultModifications.item.val[name])
              ELSE defaults.val[name]]]
    ELSE defaults

\* getActivePatterns() of new PatternManager() followed by init(), over
\* this localStorage.
activePatternsAfterReload(store) ==
    getActivePatternsOf(loadDefaultModificationsOn(ConstructedDefaults, store),
                        loadUserPatterns(store))

----------------------------------------------------------------------------
(* The calls that change the registry, as functions of the two objects:    *)
(* each gives the objects after the call, whether the call threw and       *)
(* whether it reached saveUserPatternsToStorage.                           *)

Outcome(threw, defaults, users, saved) ==
    [threw |-> threw, defaultPatterns |-> defaults, userPatterns |-> users,
     saved |-> saved]

\* A string-valued field is present and not the empty string.
Truthy(object, field) == field \in DOMAIN object /\ object[field] # ""

\* saveUserPattern(name, patternData)
saveUserPatternOn(defaults, users, name, patternData) ==
    IF ~validatePattern(patternData.pattern)
    THEN Outcome(TRUE, defaults, users, FALSE)
    ELSE LET pattern ==
                [pattern |-> patternData.pattern,
                 color |-> IF Truthy(patternData, "color")
                           THEN patternData.color ELSE "#808080",
                 category |-> IF Truthy(patternData, "category")
                              THEN patternData.category ELSE "custom",
                 enabled |-> IF "enabled" \in DOMAIN patternData
                             THEN patternData.enabled ELSE TRUE,
                 userDefined |-> TRUE]
         IN  Outcome(FALSE, defaults, Put(users, name, pattern), TRUE)

\* deleteUserPattern(name)
deleteUserPatternOn(defaults, users, name) ==
    IF HasOwn(users, name)
    THEN Outcome(FALSE, defaults, Delete(users, name), TRUE)
    ELSE Outcome(FALSE, defaults, users, FALSE)

\* One rule of an ordered map with one field set.
WithField(o, name, field, value) ==
    Put(o, name, AssignFields(o.val[name], [f \in {field} |-> value]))

\* togglePattern(name, enabled)
togglePatternOn(defaults, users, name, enabled) ==
    IF HasOwn(defaults, name)
    THEN Outcome(FALSE, WithField(defaults, name, "enabled", enabled), users, TRUE)
    ELSE IF HasOwn(users, name)
    THEN Outcome(FALSE, defaults, WithField(users, name, "enabled", enabled), TRUE)
    ELSE Outcome(FALSE, defaults, users, TRUE)

\* updatePattern(name, updates)
updatePatternOn(defaults, users, name, updates) ==
    LET target ==
            IF HasOwn(users, name) THEN "user"
            ELSE IF HasOwn(defaults, name) /\ Truthy(updates, "pattern") THEN "override"
            ELSE IF HasOwn(defaults, name) THEN "default"
            ELSE "none"
        \* the user override is created before the new regex is validated
        users1 == IF target = "override"
                  THEN Put(users, name, defaults.val[name]) ELSE users
        applied(rule) ==
            AssignFields(AssignFields(rule, updates),
                         [f \in {"modified"} |-> Timestamp])
    IN  IF target = "none" THEN Outcome(TRUE, defaults, users, FALSE)
        ELSE IF Truthy(updates, "pattern") /\ ~validatePattern(updates.pattern)
        THEN Outcome(TRUE, defaults, users1, FALSE)
        ELSE IF target = "default"
        THEN Outcome(FALSE, Put(defaults, name, applied(defaults.val[name])),
                     users1, TRUE)
        ELSE Outcome(FALSE, defaults,
                     Put(users1, name, applied(users1.val[name])), TRUE)

\* importPatterns(importData)
importPatternsOn(defaults, users, importData) ==
    LET hasUsers == "userPatterns" \in DOMAIN importData
        hasOverrides == "defaultOverrides" \in DOMAIN importData
        invalid ==
            /\ hasUsers
            /\ \E name \in DOMAIN importData.userPatterns.val :
                  ~validatePattern(importData.userPatterns.val[name].pattern)
        users1 == IF hasUsers
                  THEN AssignObject(users, importData.userPatterns) ELSE users
        defaults1 ==
            IF hasOverrides
            THEN [keys |-> defaults.keys,
                  val  |-> [name \in DOMAIN defaults.val |->
                      IF HasOwn(importData.defaultOverrides, name)
                      THEN AssignFields(defaults.val[name],
                                        importData.defaultOverrides.val[name])
                      ELSE defaults.val[name]]]
            ELSE defaults
    IN  IF invalid THEN Outcome(TRUE, defaults, users, FALSE)
        ELSE Outcome(FALSE, defaults1, users1, TRUE)

\* A reset that empties userPatterns and leaves defaultPatterns as it is.
resetUserPatternsOnly(defaults, users) ==
    Outcome(FALSE, defaults, EmptyObject, TRUE)

\* resetToDefaults()
resetToDefaultsOn(defaults, users) ==
    Outcome(FALSE,
            [keys |-> defaults.keys,
             val  |-> [name \in DOMAIN defaults.val |->
                          getOriginalDefaultPattern(name)]],
            EmptyObject, TRUE)

----------------------------------------------------------------------------
(* The arguments of the calls.                                             *)

\* Two default names, a user name, and a user name that is an array index.
Names == { "Line_number", "Equipment_number", "Valve_tag", "7" }

\* The patternData that savePattern of patternUI.js builds from its form.
FormData(regex) ==
    [pattern |-> regex, category |-> "equipment", color |-> "#00FFFF",
     enabled |-> TRUE]

PatternDataInputs ==
    { FormData(ShortTagRegex), FormData(BrokenRegex), [pattern |-> DigitsRegex] }

UpdateInputs ==
    { [pattern |-> DigitsRegex], [pattern |-> BrokenRegex],
      [pattern |-> EmptyRegex], [category |-> "line"], [enabled |-> FALSE],
      FormData(ShortTagRegex) }

\* A rule object as an export file carries it.
ImportedRule(regex) ==
    [pattern |-> regex, color |-> "#808080", category |-> "custom",
     enabled |-> TRUE, userDefined |-> TRUE]

ObjectOf(keys, val) == [keys |-> keys, val |-> val]

ImportInputs ==
    { [userPatterns |->
          ObjectOf(<< "Valve_tag" >>,
                   [n \in {"Valve_tag"} |-> ImportedRule(DigitsRegex)])],
      [userPatterns |->
          ObjectOf(<< "Valve_tag", "7" >>,
                   [n \in {"Valve_tag", "7"} |->
                       IF n = "7" THEN ImportedRule(BrokenRegex)
                       ELSE ImportedRule(ShortTagRegex)])],
      [userPatterns |-> EmptyObject,
       defaultOverrides |->
          ObjectOf(<< "Line_number" >>,
                   [n \in {"Line_number"} |-> [enabled |-> FALSE]])],
      [defaultOverrides |->
          ObjectOf(<< "Equipment_number" >>,
                   [n \in {"Equipment_number"} |-> [pattern |-> BrokenRegex]])] }

----------------------------------------------------------------------------
(* The instrument matcher (src/js/modules/instrumentMatcher.js).           *)
(*                                                                         *)
(* A positioned text item is the record [text, x, y, width, height, page]  *)
(* (bbox is a function of the other fields and is left out).  Coordinates  *)
(* are integers.  A centre is kept doubled (2x + width) and a search       *)
(* height is the exact fraction num/den, so that every comparison of the   *)
(* code is made on integers without rounding.  A value that is a string or *)
(* null in the code is String(s) or null here.                             *)

null == [type |-> "null"]

String(s) == [type |-> "string", value |-> s]

\* The value is truthy: not null and not the empty string.
ToBoolean(v) == v.type = "string" /\ v.value # ""

Abs(n) == IF n < 0 THEN -n ELSE n

Max(a, b) == IF a < b THEN b ELSE a

\* array.reduce((sum, h) => sum + h, 0)
SumOf(seq) ==
    LET sum[i \in 0..Len(seq)] == IF i = 0 THEN 0 ELSE sum[i - 1] + seq[i]
    IN  sum[Len(seq)]

\* The reduce that replaces the best element on an equal score.
ReduceToLeastLater(scores) ==
    LET best[i \in 1..Len(scores)] ==
            IF i = 1 THEN 1
            ELSE IF scores[i] <= scores[best[i - 1]] THEN i
                 ELSE best[i - 1]
    IN  best[Len(scores)]

\* array.reduce((best, current) => score(current) < score(best) ? current : best)
\* of a non-empty array, scores[i] being the score of its i-th element: the
\* index of the element it returns.  An equal score keeps the earlier one.
ReduceToLeast(scores) ==
    LET best[i \in 1..Len(scores)] ==
            IF i = 1 THEN 1
            ELSE IF scores[i] < scores[best[i - 1]] THEN i
                 ELSE best[i - 1]
    IN  best[Len(scores)]

\* Twice the x and the y of the centre of an item.
CenterX2(item) == 2 * item.x + item.width

CenterY2(item) == 2 * item.y + item.height

\* this.defaultSearchHeight as the constructor sets it
ConstructedSearchHeight == [num |-> 10, den |-> 1]

\* The least search height that adjustSearchParameters assigns.
MinimumSearchHeight == 15

\* The source that adjustSearchParameters tests with for a rule name: the
\* pattern of the active rule, or the literal of the code if the rule is not
\* active or its pattern is falsy.
AdjustmentPattern(activePatterns, name, literal) ==
    IF HasOwn(activePatterns, name) /\ Truthy(activePatterns.val[name], "pattern")
    THEN activePatterns.val[name].pattern
    ELSE literal

\* The distances with the pairs on one line counted too (no test
\* verticalDistance > 0).
verticalDistancesWithLevel(instrumentNumbers, functionTexts) ==
    LET near(number) ==
            SelectSeq(functionTexts,
                LAMBDA func :
                    /\ func.page = number.page
                    /\ Abs(number.y - func.y) < 80
                    /\ Abs(CenterX2(number) - CenterX2(func)) < 2 * 100)
        of(number) ==
            [i \in 1..Len(near(number)) |-> Abs(number.y - near(number)[i].y)]
        all[i \in 0..Len(instrumentNumbers)] ==
            IF i = 0 THEN << >> ELSE all[i - 1] \o of(instrumentNumbers[i])
    IN  all[Len(instrumentNumbers)]

\* verticalDistances of adjustSearchParameters: for each number, for each
\* function text of its page in proximity, the distance of their y.
verticalDistancesOf(instrumentNumbers, functionTexts) ==
    LET near(number) ==
            SelectSeq(functionTexts,
                LAMBDA func :
                    /\ func.page = number.page
                    /\ Abs(number.y - func.y) > 0
                    /\ Abs(number.y - func.y) < 80
                    /\ Abs(CenterX2(number) - CenterX2(func)) < 2 * 100)
        of(number) ==
            [i \in 1..Len(near(number)) |-> Abs(number.y - near(number)[i].y)]
        all[i \in 0..Len(instrumentNumbers)] ==
            IF i = 0 THEN << >> ELSE all[i - 1] \o of(instrumentNumbers[i])
    IN  all[Len(instrumentNumbers)]

\* q1 of adjustSearchParameters: the element at Math.floor(length * 0.25)
\* of the sorted distances.
q1Of(verticalDistances) ==
    SortSeq(verticalDistances, LAMBDA a, b : a < b)
        [(Len(verticalDistances) \div 4) + 1]

\* q3 of adjustSearchParameters: the element at Math.floor(length * 0.75)
\* of the sorted distances, which are not empty.
q3Of(verticalDistances) ==
    SortSeq(verticalDistances, LAMBDA a, b : a < b)
        [((Len(verticalDistances) * 3) \div 4) + 1]

\* The first assignment without its floor: avgHeight * 5.
firstSearchHeightUnfloored(previous, textHeights) ==
    IF textHeights # << >>
    THEN [num |-> 5 * SumOf(textHeights), den |-> Len(textHeights)]
    ELSE [num |-> 25, den |-> 1]

\* The first assignment that keeps the height of the previous call when no
\* item has a height.
firstSearchHeightKept(previous, textHeights) ==
    IF textHeights # << >>
    THEN [num |-> Max(5 * SumOf(textHeights),
                      MinimumSearchHeight * Len(textHeights)),
          den |-> Len(textHeights)]
    ELSE previous

\* The first assignment of adjustSearchParameters to this.defaultSearchHeight,
\* which was previous at entry: Math.max(avgHeight * 5, 15.0), or 25.0 when
\* no item has a height.
firstSearchHeight(previous, textHeights) ==
    IF textHeights # << >>
    THEN [num |-> Max(5 * SumOf(textHeights),
                      MinimumSearchHeight * Len(textHeights)),
          den |-> Len(textHeights)]
    ELSE [num |-> 25, den |-> 1]

\* adjustSearchParameters(textWithPositions): the value it leaves in
\* this.defaultSearchHeight, which was previous at entry.
adjustSearchParameters(previous, items, activePatterns) ==
    LET heights == SelectSeq(items, LAMBDA item : item.height > 0)
        textHeights == [i \in 1..Len(heights) |-> heights[i].height]
        first == firstSearchHeight(previous, textHeights)
        instrumentNumberPattern ==
            AdjustmentPattern(activePatterns, "Instrument_number",
                              InstrumentNumberRegex)
        instrumentFunctionPattern ==
            AdjustmentPattern(activePatterns, "Instrument_function",
                              InstrumentFunctionRegex)
        instrumentNumbers ==
            SelectSeq(items,
                LAMBDA item : testPattern(instrumentNumberPattern, item.text))
        functionTexts ==
            SelectSeq(items,
                LAMBDA item : testPattern(instrumentFunctionPattern, item.text))
        verticalDistances ==
            verticalDistancesOf(instrumentNumbers, functionTexts)
        q3 == q3Of(verticalDistances)
    IN  IF verticalDistances # << >>
        \* Math.max(q3 * 1.3, this.defaultSearchHeight, 20.0)
        THEN [num |-> Max(Max(13 * q3 * first.den, 10 * first.num),
                          10 * 20 * first.den),
              den |-> 10 * first.den]
        ELSE first

\* findInstrumentNumbers(textWithPositions, pattern)
findInstrumentNumbers(items, pattern) ==
    SelectSeq(items, LAMBDA item : testPattern(pattern.pattern, item.text))

\* The test that leaves out the page: the text matches the function rule.
isFunctionOfAnyPage(item, instrumentNumber, functionPattern) ==
    testPattern(functionPattern.pattern, item.text)

\* The item is on the page of the number and its text matches the function
\* rule: item.page === page && testPattern(functionPattern.pattern, item.text)
isFunctionOfPage(item, instrumentNumber, functionPattern) ==
    /\ item.page = instrumentNumber.page
    /\ testPattern(functionPattern.pattern, item.text)

\* candidateFunctions of findFunctionForInstrument: the function texts of the
\* page in the search area.
candidateFunctionsOf(items, instrumentNumber, functionPattern, searchHeight) ==
    LET y == instrumentNumber.y
        \* twice Math.max(width * 2.0, 20)
        horizontalTolerance2 == Max(4 * instrumentNumber.width, 2 * 20)
    IN  SelectSeq(items,
            LAMBDA item :
                /\ isFunctionOfPage(item, instrumentNumber, functionPattern)
                \* item.y >= y - searchHeight && item.y <= y + height + 3
                /\ (item.y - y) * searchHeight.den >= -searchHeight.num
                /\ item.y <= y + instrumentNumber.height + 3
                /\ Abs(CenterX2(item) - CenterX2(instrumentNumber))
                      <= horizontalTolerance2)

\* All candidates considered, above the number or not.
functionsToConsiderAll(candidateFunctions, instrumentNumber) ==
    candidateFunctions

\* functionsToConsider: the candidates above the number if there are any,
\* else all candidates.
functionsToConsiderOf(candidateFunctions, instrumentNumber) ==
    LET functionsAbove ==
            SelectSeq(candidateFunctions, LAMBDA f : f.y < instrumentNumber.y)
    IN  IF functionsAbove # << >> THEN functionsAbove ELSE candidateFunctions

\* Four times the score of a candidate:
\* horizontalDist * 0.5 + verticalDist * 2.0
scoreOf(f, instrumentNumber) ==
    Abs(CenterX2(f) - CenterX2(instrumentNumber))
        + 4 * Abs(2 * f.y - CenterY2(instrumentNumber))

\* Four times the square of the distance of the centres of the two items.
distanceOf(f, instrumentNumber) ==
    (CenterX2(f) - CenterX2(instrumentNumber))
        * (CenterX2(f) - CenterX2(instrumentNumber))
    + (CenterY2(f) - CenterY2(instrumentNumber))
        * (CenterY2(f) - CenterY2(instrumentNumber))

\* closestFunction: the reduce over functionsToConsider, which is not empty.
closestFunctionOf(functionsToConsider, instrumentNumber) ==
    functionsToConsider[ReduceToLeast(
        [i \in 1..Len(functionsToConsider) |->
            scoreOf(functionsToConsider[i], instrumentNumber)])]

\* The fallback that accepts the nearest function text at distance 100 too.
nearestFunctionWithin(items, instrumentNumber, functionPattern) ==
    LET allFunctionTexts ==
            SelectSeq(items,
                LAMBDA item :
                    isFunctionOfPage(item, instrumentNumber, functionPattern))
        nearestFunction ==
            allFunctionTexts[ReduceToLeast(
                [i \in 1..Len(allFunctionTexts) |->
                    distanceOf(allFunctionTexts[i], instrumentNumber)])]
    IN  IF allFunctionTexts # << >>
            /\ distanceOf(nearestFunction, instrumentNumber) <= 4 * 100 * 100
        THEN nearestFunction
        ELSE null

\* The fallback of findFunctionForInstrument: the function text of the page
\* nearest to the number if distance < 100, else null.
nearestFunctionOf(items, instrumentNumber, functionPattern) ==
    LET allFunctionTexts ==
            SelectSeq(items,
                LAMBDA item :
                    isFunctionOfPage(item, instrumentNumber, functionPattern))
        nearestFunction ==
            allFunctionTexts[ReduceToLeast(
                [i \in 1..Len(allFunctionTexts) |->
                    distanceOf(allFunctionTexts[i], instrumentNumber)])]
    IN  IF allFunctionTexts # << >>
            /\ distanceOf(nearestFunction, instrumentNumber) < 4 * 100 * 100
        THEN nearestFunction
        ELSE null

\* The item whose text findFunctionForInstrument returns (closestFunction or
\* nearestFunction), or null.
functionItemFor(items, instrumentNumber, functionPattern, searchHeight) ==
    LET candidateFunctions ==
            candidateFunctionsOf(items, instrumentNumber, functionPattern,
                                 searchHeight)
    IN  IF candidateFunctions # << >>
        THEN closestFunctionOf(
                 functionsToConsiderOf(candidateFunctions, instrumentNumber),
                 instrumentNumber)
        ELSE nearestFunctionOf(items, instrumentNumber, functionPattern)

\* findFunctionForInstrument(textWithPositions, instrumentNumber,
\* functionPattern, searchHeight)
findFunctionForInstrument(items, instrumentNumber, functionPattern, searchHeight) ==
    LET found == functionItemFor(items, instrumentNumber, functionPattern,
                                 searchHeight)
    IN  IF found = null THEN null ELSE String(found.text)

\* findFunctionPosition(textWithPositions, functionText, instrumentNumber),
\* with this.defaultSearchHeight as it is when the call is made
findFunctionPosition(items, functionText, instrumentNumber, searchHeight) ==
    LET y == instrumentNumber.y
        found ==
            SelectSeq(items,
                LAMBDA item :
                    /\ item.page = instrumentNumber.page
                    /\ item.text = functionText
                    /\ (item.y - y) * searchHeight.den >= -searchHeight.num
                    /\ item.y <= y + 2
                    \* within width * 1.5 of the centre
                    /\ Abs(CenterX2(item) - CenterX2(instrumentNumber))
                          <= 3 * instrumentNumber.width)
    IN  IF found = << >> THEN null ELSE Head(found)

\* functionTypes of getInstrumentType, on the function codes of Texts
functionTypes == [f \in { "PT" } |-> "Pressure Transmitter"]

\* getInstrumentType(functionText)
getInstrumentType(functionText) ==
    IF ~ToBoolean(functionText) THEN "Instrument"
    ELSE IF functionText.value \in DOMAIN functionTypes
         THEN functionTypes[functionText.value]
         ELSE functionText.value \o " Instrument"

\* The position field of a tag: the place of an item.
PositionOf(item) ==
    [x |-> item.x, y |-> item.y, width |-> item.width,
     height |-> item.height, page |-> item.page]

\* The tag whose position is the place of the function item when there is one.
instrumentTagAtFunction(instrumentNum, functionText, functionPosition, clock) ==
    [id |-> "instrument_" \o instrumentNum.text \o "_" \o ToString(clock),
     name |-> IF ToBoolean(functionText)
              THEN functionText.value \o "-" \o instrumentNum.text
              ELSE instrumentNum.text,
     number |-> instrumentNum.text,
     function |-> IF ToBoolean(functionText) THEN functionText ELSE String(""),
     type |-> getInstrumentType(functionText),
     category |-> "instrument",
     recognized |-> TRUE,
     numberPosition |-> instrumentNum,
     functionPosition |-> functionPosition,
     patternName |-> "Instrument_number",
     created |-> clock,
     position |-> IF functionPosition # null THEN PositionOf(functionPosition)
                  ELSE PositionOf(instrumentNum)]

\* instrumentTag of findInstrumentFunctions, built at the time clock
instrumentTag(instrumentNum, functionText, functionPosition, clock) ==
    [id |-> "instrument_" \o instrumentNum.text \o "_" \o ToString(clock),
     name |-> IF ToBoolean(functionText)
              THEN functionText.value \o "-" \o instrumentNum.text
              ELSE instrumentNum.text,
     number |-> instrumentNum.text,
     function |-> IF ToBoolean(functionText) THEN functionText ELSE String(""),
     type |-> getInstrumentType(functionText),
     category |-> "instrument",
     recognized |-> TRUE,
     numberPosition |-> instrumentNum,
     functionPosition |-> functionPosition,
     patternName |-> "Instrument_number",
     created |-> clock,
     position |-> PositionOf(instrumentNum)]

\* The test that returns early only when both rules are missing.
missingBothInstrumentRules(patterns) ==
    ~HasOwn(patterns, "Instrument_number")
        /\ ~HasOwn(patterns, "Instrument_function")

\* !instrumentNumberPattern || !instrumentFunctionPattern
missingInstrumentRule(patterns) ==
    ~HasOwn(patterns, "Instrument_number")
        \/ ~HasOwn(patterns, "Instrument_function")

\* The input array as a pass that reverses it in place would leave it.
textWithPositionsReversed(items) ==
    [i \in 1..Len(items) |-> items[Len(items) + 1 - i]]

\* The input array after a recognition pass: the pass reads it with filter,
\* forEach and find, and assigns to none of its elements or fields.
textWithPositionsAfter(items) == items

\* findInstrumentFunctions(textWithPositions) on a matcher whose
\* defaultSearchHeight is previous, over this active set, at the time clock:
\* what it returns, whether it threw, and what it leaves behind.  Reading
\* .pattern of a rule that is undefined throws a TypeError.
findInstrumentFunctionsOn(previous, items, patterns, clock) ==
    LET adjusted == adjustSearchParameters(previous, items, patterns)
        \* searchHeight || this.defaultSearchHeight, searchHeight being null
        height == adjusted
        instrumentNumbers ==
            findInstrumentNumbers(items, patterns.val["Instrument_number"])
        tagOf(num) ==
            LET functionText ==
                    findFunctionForInstrument(items, num,
                        patterns.val["Instrument_function"], height)
            IN  instrumentTag(num, functionText,
                    IF ToBoolean(functionText)
                    THEN findFunctionPosition(items, functionText.value, num,
                                              adjusted)
                    ELSE null,
                    clock)
        left == [defaultSearchHeight |-> adjusted, height |-> height,
                 textWithPositions |-> textWithPositionsAfter(items)]
    IN  IF missingInstrumentRule(patterns)
        THEN left @@ [threw |-> FALSE, tags |-> << >>]
        ELSE IF \/ ~HasOwn(patterns, "Instrument_number") /\ items # << >>
                \/ /\ HasOwn(patterns, "Instrument_number")
                   /\ ~HasOwn(patterns, "Instrument_function")
                   /\ instrumentNumbers # << >>
             THEN left @@ [threw |-> TRUE, tags |-> << >>]
             ELSE IF ~HasOwn(patterns, "Instrument_number")
                  THEN left @@ [threw |-> FALSE, tags |-> << >>]
                  ELSE left @@
                       [threw |-> FALSE,
                        tags |-> [i \in 1..Len(instrumentNumbers) |->
                                    tagOf(instrumentNumbers[i])]]

----------------------------------------------------------------------------
(* The tag manager (src/js/modules/tagManager.js).                         *)
(*                                                                         *)
(* The text of a document is the sequence of its pieces, each a text of    *)
(* Texts or one delimiter character; no two texts are adjacent.  The       *)
(* fields type, spec, size and service of a tag are functions of its name  *)
(* alone and are left out, as are patternColor and patternDescription.     *)

\* Two of the characters of the class that extractTextTokens splits on.
Delimiters == { " ", "." }

Array(items) == [type |-> "array", value |-> items]

\* if (value) of recognizeTags: null is falsy, every array is truthy.
IsGiven(value) == value.type = "array"

\* text.split(/[\s\n\r\t,;.()[\]{}]+/): the strings between the runs of
\* delimiters, the empty string before a leading and after a trailing run.
split(text) ==
    LET walk[i \in 0..Len(text)] ==
            IF i = 0 THEN [done |-> << >>, field |-> "", inRun |-> FALSE]
            ELSE LET before == walk[i - 1]
                 IN  IF text[i] \in Delimiters
                     THEN IF before.inRun THEN before
                          ELSE [done |-> Append(before.done, before.field),
                                field |-> "", inRun |-> TRUE]
                     ELSE [done |-> before.done,
                           field |-> before.field \o text[i], inRun |-> FALSE]
    IN  Append(walk[Len(text)].done, walk[Len(text)].field)

\* [...new Set(tokens)]: the first occurrence of each value, in order.
Distinct(tokens) ==
    LET kept[i \in 0..Len(tokens)] ==
            IF i = 0 THEN << >>
            ELSE IF tokens[i] \in Range(kept[i - 1]) THEN kept[i - 1]
                 ELSE Append(kept[i - 1], tokens[i])
    IN  kept[Len(tokens)]

\* extractTextTokens(text); no token of these texts has a space to trim.
extractTextTokens(text) ==
    Distinct(SelectSeq(split(text), LAMBDA token : token # ""))

\* matchResult.pattern.category, "undefined" if the rule has no such field
CategoryOf(matchResult) ==
    IF "category" \in DOMAIN matchResult.pattern
    THEN matchResult.pattern.category
    ELSE "undefined"

\* createTagObject(tagName, category, matchResult) at the time clock
createTagObject(tagName, category, matchResult, clock) ==
    [id |-> category \o "_" \o tagName \o "_" \o ToString(clock),
     name |-> tagName,
     category |-> category,
     recognized |-> TRUE,
     created |-> clock,
     patternName |-> matchResult.name]

\* createTagObjectWithPosition(tagName, category, matchResult, positionData)
createTagObjectWithPosition(tagName, category, matchResult, positionData, clock) ==
    createTagObject(tagName, category, matchResult, clock)
        @@ [position |-> PositionOf(positionData)]

\* The push that does not look for the name.
pushAlways(list, tagObject) == Append(list, tagObject)

\* if (!list.some(tag => tag.name === tagObject.name)) list.push(tagObject)
pushUnlessNamed(list, tagObject) ==
    IF \E i \in 1..Len(list) : list[i].name = tagObject.name
    THEN list
    ELSE Append(list, tagObject)

\* The categories whose tokens the simple pass does not keep out.
simpleCategoriesAll == { "equipment", "line", "instrument" }

\* recognizedTags[category] && category !== 'instrument'
simpleCategories == { "equipment", "line" }

\* recognizeTagsSimple(textContent) over this active set at the time clock
recognizeTagsSimple(text, patterns, clock) ==
    LET tokens == extractTextTokens(text)
        lists[i \in 0..Len(tokens)] ==
            IF i = 0
            THEN [equipment |-> << >>, line |-> << >>, instrument |-> << >>]
            ELSE LET matchResult == findMatchingPatternOf(patterns, tokens[i])
                     category == CategoryOf(matchResult)
                 IN  IF matchResult.match /\ category \in simpleCategories
                     THEN [lists[i - 1] EXCEPT ![category] =
                             pushUnlessNamed(@,
                                createTagObject(tokens[i], category,
                                                matchResult, clock))]
                     ELSE lists[i - 1]
    IN  lists[Len(tokens)]

\* The loop of recognizeTagsWithPositions: the equipment and line lists.
classifyItems(items, patterns, clock) ==
    LET lists[i \in 0..Len(items)] ==
            IF i = 0
            THEN [equipment |-> << >>, line |-> << >>]
            ELSE LET matchResult == findMatchingPatternOf(patterns, items[i].text)
                     category == CategoryOf(matchResult)
                 IN  IF matchResult.match /\ category \in { "equipment", "line" }
                     THEN [lists[i - 1] EXCEPT ![category] =
                             pushUnlessNamed(@,
                                createTagObjectWithPosition(items[i].text,
                                    category, matchResult, items[i], clock))]
                     ELSE lists[i - 1]
    IN  lists[Len(items)]

\* The outcome of a pass: whether it threw, the tags of the three
\* categories, and the matcher's height and the input array after it.
Recognized(threw, equipment, line, instrument, height, searchHeight, items) ==
    [threw |-> threw, equipment |-> equipment, line |-> line,
     instrument |-> instrument, height |-> height,
     defaultSearchHeight |-> searchHeight, textWithPositions |-> items]

\* recognizeTagsWithPositions(textWithPositions) on a matcher whose
\* defaultSearchHeight is previous
recognizeTagsWithPositions(previous, items, patterns, clock) ==
    LET lists == classifyItems(items, patterns, clock)
        found == findInstrumentFunctionsOn(previous, items, patterns, clock)
    IN  Recognized(found.threw, lists.equipment, lists.line, found.tags,
                   found.height, found.defaultSearchHeight,
                   found.textWithPositions)

\* recognizeTags(textContent, textWithPositions), the second argument an
\* array or null
recognizeTagsOn(previous, text, positions, patterns, clock) ==
    IF IsGiven(positions)
    THEN recognizeTagsWithPositions(previous, positions.value, patterns, clock)
    ELSE LET lists == recognizeTagsSimple(text, patterns, clock)
         IN  Recognized(FALSE, lists.equipment, lists.line, lists.instrument,
                        previous, previous, << >>)

\* No recognition call has been made.
NoRun == [op |-> "none"]

\* A tag manager as constructed, before a document is loaded.
NoDocument ==
    /\ textContent = << >>
    /\ textWithPositions = << >>
    /\ defaultSearchHeight = ConstructedSearchHeight
    /\ now = 0
    /\ run = NoRun

----------------------------------------------------------------------------
(* The state machine: a registry constructed over an empty localStorage,   *)
(* then any calls.                                                         *)

\* The registry and localStorage as they are now.
Snapshot ==
    [defaultPatterns |-> defaultPatterns, userPatterns |-> userPatterns,
     storage |-> storage]

Init ==
    /\ defaultPatterns = ConstructedDefaults
    /\ userPatterns = loadUserPatterns(EmptyStorage)
    /\ storage = EmptyStorage
    /\ last = [op |-> "init", threw |-> FALSE, before |-> Snapshot]
    /\ steps = 0
    /\ NoDocument

\* The effect of one call on the state.
Call(op, name, arg, outcome) ==
    /\ steps < MaxOps
    /\ steps' = steps + 1
    /\ defaultPatterns' = outcome.defaultPatterns
    /\ userPatterns' = outcome.userPatterns
    /\ storage' = IF outcome.saved
                  THEN savedStorage(outcome.defaultPatterns, outcome.userPatterns)
                  ELSE storage
    /\ last' = [op |-> op, name |-> name, arg |-> arg, threw |-> outcome.threw,
                before |-> Snapshot]
    /\ UNCHANGED << textContent, textWithPositions, defaultSearchHeight, now,
                    run >>

saveUserPattern(name, patternData) ==
    Call("saveUserPattern", name, patternData,
         saveUserPatternOn(defaultPatterns, userPatterns, name, patternData))

deleteUserPattern(name) ==
    Call("deleteUserPattern", name, << >>,
         deleteUserPatternOn(defaultPatterns, userPatterns, name))

togglePattern(name, enabled) ==
    Call("togglePattern", name, enabled,
         togglePatternOn(defaultPatterns, userPatterns, name, enabled))

updatePattern(name, updates) ==
    Call("updatePattern", name, updates,
         updatePatternOn(defaultPatterns, userPatterns, name, updates))

importPatterns(importData) ==
    Call("importPatterns", "", importData,
         importPatternsOn(defaultPatterns, userPatterns, importData))

resetToDefaults ==
    Call("resetToDefaults", "", << >>,
         resetToDefaultsOn(defaultPatterns, userPatterns))

\* saveUserPattern, updatePattern, togglePattern and deleteUserPattern.
NextEdit ==
    \/ \E name \in Names, patternData \in PatternDataInputs :
          saveUserPattern(name, patternData)
    \/ \E name \in Names : deleteUserPattern(name)
    \/ \E name \in Names, enabled \in BOOLEAN : togglePattern(name, enabled)
    \/ \E name \in Names, updates \in UpdateInputs : updatePattern(name, updates)

Next ==
    \/ \E name \in Names, patternData \in PatternDataInputs :
          saveUserPattern(name, patternData)
    \/ \E name \in Names : deleteUserPattern(name)
    \/ \E name \in Names, enabled \in BOOLEAN : togglePattern(name, enabled)
    \/ \E name \in Names, updates \in UpdateInputs : updatePattern(name, updates)
    \/ \E importData \in ImportInputs : importPatterns(importData)
    \/ resetToDefaults

Spec == Init /\ [][Next]_vars

\* The registry under the four editing calls only.
SpecEdit == Init /\ [][NextEdit]_vars

\* A call of the registry that completes: it does not throw.
NextCompleted == Next /\ ~last'.threw

\* The registry under calls that complete.
SpecCompleted == Init /\ [][NextCompleted]_vars

----------------------------------------------------------------------------
(* Recognition: a tag manager over a registry that earlier calls have left *)
(* in one of RegistryStates, with one document loaded, then any            *)
(* recognition calls on that document.                                     *)

\* The items of one document.
MaxItems == 3

\* The pieces of the text of one document.
MaxPieces == 3

Item(text, x, y, width, height, page) ==
    [text |-> text, x |-> x, y |-> y, width |-> width, height |-> height,
     page |-> page]

\* A number and the same number without a height; a function code above the
\* number and one far from it, in small print; an equipment tag at two
\* places; a line tag.
Items ==
    { Item("1234", 100, 200, 10, 8, 1),
      Item("1234", 100, 200, 10, 0, 1),
      Item("PT", 98, 186, 14, 8, 1),
      Item("PT", 300, 200, 14, 2, 1),
      Item("V28-E-0003", 10, 10, 40, 8, 1),
      Item("V28-E-0003", 50, 50, 40, 8, 1),
      Item("100-PS-1234-A1B2", 10, 30, 60, 8, 1) }

SeqsUpTo(set, n) == UNION { [1..k -> set] : k \in 0..n }

\* The sequences of at most n different elements of the set.
ArraysUpTo(set, n) ==
    { seq \in SeqsUpTo(set, n) :
        \A i, j \in 1..Len(seq) : i # j => seq[i] # seq[j] }

\* What extractTextWithPositions can return.
Documents == ArraysUpTo(Items, MaxItems)

\* The texts that extractAllText can return.
Blobs ==
    { text \in SeqsUpTo(Texts \cup Delimiters, MaxPieces) :
        \A i \in 1..(Len(text) - 1) :
            text[i] \in Delimiters \/ text[i + 1] \in Delimiters }

\* The registry as constructed and as one call leaves it: an instrument rule
\* disabled, an instrument or equipment rule given a source that does not
\* compile by an import, the function rule edited to match digits, a user
\* rule added.
RegistryStates ==
    { Outcome(FALSE, ConstructedDefaults, EmptyObject, FALSE),
      togglePatternOn(ConstructedDefaults, EmptyObject,
                      "Instrument_number", FALSE),
      togglePatternOn(ConstructedDefaults, EmptyObject,
                      "Instrument_function", FALSE),
      importPatternsOn(ConstructedDefaults, EmptyObject,
          [defaultOverrides |->
              ObjectOf(<< "Instrument_function" >>,
                  [n \in {"Instrument_function"} |-> [pattern |-> BrokenRegex]])]),
      importPatternsOn(ConstructedDefaults, EmptyObject,
          [defaultOverrides |->
              ObjectOf(<< "Equipment_number" >>,
                  [n \in {"Equipment_number"} |-> [pattern |-> BrokenRegex]])]),
      updatePatternOn(ConstructedDefaults, EmptyObject,
                      "Instrument_function", [pattern |-> DigitsRegex]),
      saveUserPatternOn(ConstructedDefaults, EmptyObject,
                        "Valve_tag", FormData(ShortTagRegex)) }

\* The registry is in one of RegistryStates and no document is loaded.
InitRegistry ==
    /\ \E registry \in RegistryStates :
          /\ defaultPatterns = registry.defaultPatterns
          /\ userPatterns = registry.userPatterns
          /\ storage = IF registry.saved
                       THEN savedStorage(registry.defaultPatterns,
                                         registry.userPatterns)
                       ELSE EmptyStorage
    /\ last = [op |-> "init", threw |-> FALSE, before |-> Snapshot]
    /\ steps = 0
    /\ defaultSearchHeight = ConstructedSearchHeight
    /\ now = 0
    /\ run = NoRun

InitRecognize ==
    /\ InitRegistry
    /\ \/ textWithPositions \in Documents /\ textContent = << >>
       \/ textWithPositions = << >> /\ textContent \in Blobs

\* What a recognition call can read, as it is now.
Before ==
    [textWithPositions |-> textWithPositions,
     defaultPatterns |-> defaultPatterns, userPatterns |-> userPatterns,
     defaultSearchHeight |-> defaultSearchHeight]

\* The effect of one recognition call on the state.
Recognize(op, positions, outcome) ==
    /\ run' = [op |-> op, positions |-> positions, threw |-> outcome.threw,
               equipment |-> outcome.equipment, line |-> outcome.line,
               instrument |-> outcome.instrument, height |-> outcome.height,
               at |-> now, before |-> Before]
    /\ defaultSearchHeight' = outcome.defaultSearchHeight
    /\ textWithPositions' = IF IsGiven(positions)
                            THEN outcome.textWithPositions
                            ELSE textWithPositions
    /\ UNCHANGED << defaultPatterns, userPatterns, storage, last, steps,
                    textContent, now >>

\* instrumentMatcher.findInstrumentFunctions(textWithPositions)
findInstrumentFunctions ==
    LET found == findInstrumentFunctionsOn(defaultSearchHeight,
                     textWithPositions, getActivePatterns, now)
    IN  Recognize("findInstrumentFunctions", Array(textWithPositions),
                  Recognized(found.threw, << >>, << >>, found.tags,
                             found.height, found.defaultSearchHeight,
                             found.textWithPositions))

\* tagManager.recognizeTags(textContent, textWithPositions), or
\* tagManager.recognizeTags(textContent, null)
recognizeTags(positions) ==
    Recognize("recognizeTags", positions,
              recognizeTagsOn(defaultSearchHeight, textContent, positions,
                              getActivePatterns, now))

NextRecognize ==
    \/ findInstrumentFunctions
    \/ \E positions \in { null, Array(textWithPositions) } :
          recognizeTags(positions)

SpecRecognize == InitRecognize /\ [][NextRecognize]_vars

----------------------------------------------------------------------------
(* A session: a tag manager over the registry as constructed; documents    *)
(* are loaded one after another and recognition calls are made on the      *)
(* loaded document while the clock runs.                                   *)

\* The items of one document of a session.
MaxCallItems == 2

\* The readings of the clock after the first.
MaxClock == 1

\* A number with and without a height, and a function code above it.
CallItems ==
    { Item("1234", 100, 200, 10, 8, 1),
      Item("PT", 98, 186, 14, 8, 1),
      Item("1234", 100, 200, 10, 0, 1) }

\* pdfManager.extractTextWithPositions() returns these items.
extractTextWithPositions(items) ==
    /\ textWithPositions' = items
    /\ UNCHANGED << defaultPatterns, userPatterns, storage, last, steps,
                    textContent, defaultSearchHeight, now, run >>

\* Time passes between two calls.
Tick ==
    /\ now < MaxClock
    /\ now' = now + 1
    /\ UNCHANGED << defaultPatterns, userPatterns, storage, last, steps,
                    textContent, textWithPositions, defaultSearchHeight, run >>

NextSession ==
    \/ \E items \in ArraysUpTo(CallItems, MaxCallItems) :
          extractTextWithPositions(items)
    \/ findInstrumentFunctions
    \/ \E positions \in { null, Array(textWithPositions) } :
          recognizeTags(positions)
    \/ Tick

SpecSession == Init /\ [][NextSession]_vars

----------------------------------------------------------------------------
(* Matching: the instrument matcher over one drawing of small print, with  *)
(* the registry as constructed or with the function rule edited to match   *)
(* digits, then any calls of findInstrumentFunctions on that drawing.      *)

\* The items of one drawing.
MaxMatchItems == 3

\* A number on page 1; function codes on its page: above it, above it at
\* the same score, farther above it, below it on the lower edge of the
\* search area, beside it on the right and on the left at the same distance,
\* and straight above it at distance 100; a function code on page 2 and a
\* number in tall print on page 2.
MatchItems ==
    { Item("1234", 100, 200, 10, 2, 1),
      Item("PT", 98, 186, 14, 2, 1),
      Item("PT", 102, 187, 14, 2, 1),
      Item("PT", 98, 176, 14, 2, 1),
      Item("PT", 98, 205, 14, 2, 1),
      Item("PT", 150, 200, 14, 2, 1),
      Item("PT", 46, 200, 14, 2, 1),
      Item("PT", 98, 100, 14, 2, 1),
      Item("PT", 98, 186, 14, 2, 2),
      Item("1234", 100, 200, 10, 60, 2) }

\* What extractTextWithPositions can return for a drawing.
Drawings == ArraysUpTo(MatchItems, MaxMatchItems)

\* The registry as constructed, and with the function rule edited by
\* updatePattern to a source that matches digits.
MatchRegistryStates ==
    { Outcome(FALSE, ConstructedDefaults, EmptyObject, FALSE),
      updatePatternOn(ConstructedDefaults, EmptyObject,
                      "Instrument_function", [pattern |-> DigitsRegex]) }

InitMatch ==
    /\ \E registry \in MatchRegistryStates :
          /\ defaultPatterns = registry.defaultPatterns
          /\ userPatterns = registry.userPatterns
          /\ storage = IF registry.saved
                       THEN savedStorage(registry.defaultPatterns,
                                         registry.userPatterns)
                       ELSE EmptyStorage
    /\ last = [op |-> "init", threw |-> FALSE, before |-> Snapshot]
    /\ steps = 0
    /\ defaultSearchHeight = ConstructedSearchHeight
    /\ now = 0
    /\ run = NoRun
    /\ textWithPositions \in Drawings
    /\ textContent = << >>

NextMatch == findInstrumentFunctions

SpecMatch == InitMatch /\ [][NextMatch]_vars

----------------------------------------------------------------------------
(* Properties of the registry.                                             *)

StoredNames == DOMAIN defaultPatterns.val \cup DOMAIN userPatterns.val

\* The user rules that are active and are not under a name of priorityOrder,
\* in the order in which they were added to userPatterns.
RemainingUserRulesInInsertionOrder ==
    SelectSeq(userPatterns.keys,
              LAMBDA n : /\ n \notin Range(priorityOrder)
                         /\ HasOwn(getActivePatterns, n))

\* The default rules that apply: enabled and not shadowed by a user rule.
ActiveBuiltIn ==
    { n \in DOMAIN defaultPatterns.val :
        ~HasOwn(userPatterns, n) /\ Enabled(defaultPatterns.val[n]) }

\* The user rules that apply.
ActiveUserDefined ==
    { n \in DOMAIN userPatterns.val : Enabled(userPatterns.val[n]) }

\* The first sentence of C1: the result is the first match in the order
\* Line_number, Equipment_number, Instrument_number, Instrument_function,
\* then the remaining active user rules in insertion order.
FirstInPriorityThenInsertionOrder ==
    \A text \in Texts :
        LET active == getActivePatterns
        IN  findMatchingPattern(text) =
                FirstMatch(
                    SelectSeq(priorityOrder, LAMBDA n : HasOwn(active, n))
                        \o RemainingUserRulesInInsertionOrder,
                    active, text)

\* The second sentence of C1: a text that matches an active built-in rule
\* and an active user-defined rule gets a built-in rule and its category.
BuiltInWinsOverUserDefined ==
    \A text \in Texts :
        ( /\ \E b \in ActiveBuiltIn :
                testPattern(defaultPatterns.val[b].pattern, text)
          /\ \E u \in ActiveUserDefined :
                testPattern(userPatterns.val[u].pattern, text) )
        => LET found == findMatchingPattern(text)
           IN  /\ found.match
               /\ found.name \in ActiveBuiltIn
               /\ found.pattern.category = defaultPatterns.val[found.name].category

\* C1: findMatchingPattern(text) returns the first matching active rule in
\* the order Line_number, Equipment_number, Instrument_number,
\* Instrument_function, then the remaining active user rules in insertion
\* order; so a text that matches an active built-in rule and an active
\* user-defined rule gets the built-in rule and its category.
C1_PriorityThenInsertionOrder ==
    FirstInPriorityThenInsertionOrder /\ BuiltInWinsOverUserDefined

\* The number of entries of an ordered map under one name.
Entries(o, name) == Cardinality({ i \in 1..Len(o.keys) : o.keys[i] = name })

\* C2: getActivePatterns() holds at most one rule per id, and a user rule
\* under the id of a default rule shadows the default: the id is active
\* exactly when the user rule is enabled, and the active entry is the user
\* rule (its regex, color and enabled state), never the default.
C2_UserRuleShadowsDefault ==
    LET active == getActivePatterns
    IN  /\ \A name \in StoredNames : Entries(active, name) <= 1
        /\ \A name \in DOMAIN defaultPatterns.val \cap DOMAIN userPatterns.val :
              /\ HasOwn(active, name) <=> Enabled(userPatterns.val[name])
              /\ HasOwn(active, name) =>
                    /\ Entries(active, name) = 1
                    /\ active.val[name].pattern = userPatterns.val[name].pattern
                    /\ active.val[name].color = userPatterns.val[name].color
                    /\ active.val[name].enabled = userPatterns.val[name].enabled
                    /\ active.val[name] = userPatterns.val[name]

\* A user rule shadows a default rule that differs from it in regex and
\* color while both are enabled.
C2_Witness ==
    \E name \in DOMAIN defaultPatterns.val \cap DOMAIN userPatterns.val :
        /\ Enabled(userPatterns.val[name])
        /\ Enabled(defaultPatterns.val[name])
        /\ userPatterns.val[name].pattern # defaultPatterns.val[name].pattern
        /\ userPatterns.val[name].color # defaultPatterns.val[name].color

\* C3: after togglePattern(id, false) on a stored rule id, getActivePatterns()
\* has no entry for id and the definition is still stored; after
\* togglePattern(id, true) it has one.
C3_ToggleControlsActive ==
    (last.op = "togglePattern" /\ last.name \in StoredNames) =>
        /\ last.arg = FALSE => ~HasOwn(getActivePatterns, last.name)
        /\ last.arg = TRUE => HasOwn(getActivePatterns, last.name)

\* C4: updatePattern(id, {pattern: r}) on an enabled default rule without a
\* user entry, r compiling, creates a user entry under id with regex r that
\* getActivePatterns() returns, the default definition keeps its regex, and
\* deleteUserPattern(id) then makes the default definition active again.
C4_EditDefaultCreatesOverride ==
    ( /\ last.op = "updatePattern"
      /\ HasOwn(last.before.defaultPatterns, last.name)
      /\ ~HasOwn(last.before.userPatterns, last.name)
      /\ Enabled(last.before.defaultPatterns.val[last.name])
      /\ DOMAIN last.arg = {"pattern"}
      /\ Compiles(last.arg.pattern) )
    => LET id == last.name
           original == last.before.defaultPatterns.val[id]
           deleted == deleteUserPatternOn(defaultPatterns, userPatterns, id)
           afterDelete == getActivePatternsOf(deleted.defaultPatterns,
                                              deleted.userPatterns)
       IN  /\ ~last.threw
           /\ HasOwn(userPatterns, id)
           /\ userPatterns.val[id].pattern = last.arg.pattern
           /\ HasOwn(getActivePatterns, id)
           /\ getActivePatterns.val[id] = userPatterns.val[id]
           /\ defaultPatterns.val[id].pattern = original.pattern
           /\ HasOwn(afterDelete, id)
           /\ afterDelete.val[id] = original

\* C5: after resetToDefaults() the registry holds no user rules and
\* getActivePatterns() is the four original default rules, in order, with
\* their original regex and category, all enabled.
C5_ResetRestoresDefaults ==
    last.op = "resetToDefaults" =>
        LET active == getActivePatterns
        IN  /\ userPatterns = EmptyObject
            /\ active.keys = << "Line_number", "Equipment_number",
                                "Instrument_number", "Instrument_function" >>
            /\ active.val["Line_number"].pattern = LineRegex
            /\ active.val["Line_number"].category = "line"
            /\ active.val["Equipment_number"].pattern = EquipmentRegex
            /\ active.val["Equipment_number"].category = "equipment"
            /\ active.val["Instrument_number"].pattern = InstrumentNumberRegex
            /\ active.val["Instrument_number"].category = "instrument"
            /\ active.val["Instrument_function"].pattern = InstrumentFunctionRegex
            /\ active.val["Instrument_function"].category = "instrument"
            /\ \A name \in Range(active.keys) : active.val[name].enabled = TRUE

\* resetToDefaults() was called on a registry that had a user rule and a
\* default rule that was disabled or edited.
C5_Witness ==
    /\ last.op = "resetToDefaults"
    /\ last.before.userPatterns # EmptyObject
    /\ last.before.defaultPatterns # ConstructedDefaults

\* C6: every rule stored in the registry, default or user, has a regex that
\* compiles.
C6_EveryStoredRegexCompiles ==
    /\ \A name \in DOMAIN defaultPatterns.val :
          Compiles(defaultPatterns.val[name].pattern)
    /\ \A name \in DOMAIN userPatterns.val :
          Compiles(userPatterns.val[name].pattern)

\* C7: saveUserPattern with a regex that does not compile throws and leaves
\* the user rules, the default rules and the persisted items as they were.
C7_RejectedSaveChangesNothing ==
    (last.op = "saveUserPattern" /\ ~Compiles(last.arg.pattern)) =>
        /\ last.threw
        /\ userPatterns = last.before.userPatterns
        /\ defaultPatterns = last.before.defaultPatterns
        /\ storage = last.before.storage

\* A save with a broken regex was rejected under the name of a user rule
\* that exists and has been persisted.
C7_Witness ==
    /\ last.op = "saveUserPattern"
    /\ ~Compiles(last.arg.pattern)
    /\ HasOwn(userPatterns, last.name)
    /\ storage.userPatterns.stored

\* C8: updatePattern with a regex that does not compile, on a user rule or
\* on a default rule without user override, throws and leaves the registry
\* as it was (no user entry is created).
C8_RejectedUpdateChangesNothing ==
    ( /\ last.op = "updatePattern"
      /\ Truthy(last.arg, "pattern")
      /\ ~Compiles(last.arg.pattern)
      /\ \/ HasOwn(last.before.userPatterns, last.name)
         \/ HasOwn(last.before.defaultPatterns, last.name) )
    => /\ last.threw
       /\ userPatterns = last.before.userPatterns
       /\ defaultPatterns = last.before.defaultPatterns
       /\ storage = last.before.storage

\* Some rule or override carried by importData has a regex that does not
\* compile.
CarriesBrokenRegex(importData) ==
    \E part \in DOMAIN importData :
        \E name \in DOMAIN importData[part].val :
            /\ "pattern" \in DOMAIN importData[part].val[name]
            /\ ~Compiles(importData[part].val[name].pattern)

\* C9: importPatterns is all-or-nothing: if any rule carried by importData
\* has a regex that does not compile, the call throws, no user rule is added
\* or overwritten, no default rule is modified and nothing is persisted.
C9_ImportAllOrNothing ==
    (last.op = "importPatterns" /\ CarriesBrokenRegex(last.arg)) =>
        /\ last.threw
        /\ userPatterns = last.before.userPatterns
        /\ defaultPatterns = last.before.defaultPatterns
        /\ storage = last.before.storage

\* Two active sets have the same ids and per id the same regex, category
\* and enabled flag.
EquivalentActive(a, b) ==
    /\ DOMAIN a.val = DOMAIN b.val
    /\ \A name \in DOMAIN a.val :
          /\ a.val[name].pattern = b.val[name].pattern
          /\ a.val[name].category = b.val[name].category
          /\ a.val[name].enabled = b.val[name].enabled

\* C10: importing exportPatterns() into a freshly constructed registry gives
\* a getActivePatterns() equivalent to the exporter's.
C10_ExportImportRoundTrip ==
    LET fresh == importPatternsOn(ConstructedDefaults, EmptyObject,
                     exportPatternsOf(defaultPatterns, userPatterns))
    IN  /\ ~fresh.threw
        /\ EquivalentActive(
              getActivePatternsOf(fresh.defaultPatterns, fresh.userPatterns),
              getActivePatterns)

----------------------------------------------------------------------------
(* Properties of recognition.                                              *)

\* The last call ran the instrument matcher on the loaded items and returned.
MatcherRan ==
    /\ run.op \in { "findInstrumentFunctions", "recognizeTags" }
    /\ IsGiven(run.positions)
    /\ ~run.threw

\* The instrument-number items of the last call, in input order.
NumbersOfRun ==
    SelectSeq(run.positions.value,
        LAMBDA item :
            testPattern(getActivePatterns.val["Instrument_number"].pattern,
                        item.text))

\* The function text selected for a number item in the last call.
SelectedFunction(N) ==
    findFunctionForInstrument(run.positions.value, N,
        getActivePatterns.val["Instrument_function"], run.height)

\* C11: the tag of a number item N for which a function text F is selected
\* has name F-N.text, function F and number N.text, and every instrument tag
\* is anchored at the x, y, width, height and page of its number item.
C11_TagNamedAndAnchoredAtNumber ==
    (MatcherRan /\ run.instrument # << >>) =>
        \A i \in 1..Len(run.instrument) :
            LET tag == run.instrument[i]
                N == NumbersOfRun[i]
                F == SelectedFunction(N)
            IN  /\ F # null =>
                      /\ tag.name = F.value \o "-" \o N.text
                      /\ tag.function = F
                      /\ tag.number = N.text
                /\ tag.position = [x |-> N.x, y |-> N.y, width |-> N.width,
                                   height |-> N.height, page |-> N.page]

\* A tag with a function whose item is found at another place than the number.
C11_Witness ==
    /\ MatcherRan
    /\ \E i \in 1..Len(run.instrument) :
          /\ run.instrument[i].name = "PT-1234"
          /\ run.instrument[i].functionPosition # null
          /\ run.instrument[i].functionPosition.y # run.instrument[i].position.y

\* For every number item without a selected function the call returned a tag
\* whose name is the bare number text, and it returned one tag per number.
BareNumberWithoutFunction ==
    MatcherRan /\ HasOwn(getActivePatterns, "Instrument_number")
               /\ HasOwn(getActivePatterns, "Instrument_function") =>
        /\ Len(run.instrument) = Len(NumbersOfRun)
        /\ \A i \in 1..Len(run.instrument) :
              SelectedFunction(NumbersOfRun[i]) = null =>
                  run.instrument[i].name = NumbersOfRun[i].text

\* The function field of the tag of a number item without a selected
\* function is null.
NullFunctionWithoutFunction ==
    MatcherRan =>
        \A i \in 1..Len(run.instrument) :
            SelectedFunction(NumbersOfRun[i]) = null =>
                run.instrument[i].function = null

\* C12: when neither the search window nor the fallback yields a function
\* for a number item, its tag has the bare number text as name and null as
\* function, nothing is thrown and the other numbers still get their tags.
C12_NoFunctionGivesBareNumberAndNull ==
    /\ run.op \in { "findInstrumentFunctions", "recognizeTags" } => ~run.threw
    /\ BareNumberWithoutFunction
    /\ NullFunctionWithoutFunction

\* The texts that the last recognizeTags call classified, in input order:
\* the texts of the items, or the texts between the delimiters.
InputTexts ==
    IF IsGiven(run.positions)
    THEN [i \in 1..Len(run.positions.value) |-> run.positions.value[i].text]
    ELSE SelectSeq(textContent, LAMBDA piece : piece \notin Delimiters)

\* The index of the first input text that is this name.
FirstIndex(name) ==
    CHOOSE i \in 1..Len(InputTexts) :
        /\ InputTexts[i] = name
        /\ \A j \in 1..(i - 1) : InputTexts[j] # name

\* C13: in the result of one recognition pass the equipment list and the
\* line list each hold no name twice; the tag kept for a name is that of its
\* first occurrence in the input (it has the position of that item), and the
\* tags are in the order in which their names first occur.
C13_ListsUniqueFirstOccurrenceInOrder ==
    (run.op = "recognizeTags" /\ ~run.threw) =>
        \A category \in { "equipment", "line" } :
            LET list == run[category]
            IN  /\ \A k \in 1..Len(list) :
                      /\ \E i \in 1..Len(InputTexts) : InputTexts[i] = list[k].name
                      /\ IsGiven(run.positions) =>
                            LET item == run.positions.value[FirstIndex(list[k].name)]
                            IN  list[k].position =
                                    [x |-> item.x, y |-> item.y,
                                     width |-> item.width,
                                     height |-> item.height, page |-> item.page]
                /\ \A k, l \in 1..Len(list) :
                      k < l =>
                          /\ list[k].name # list[l].name
                          /\ FirstIndex(list[k].name) < FirstIndex(list[l].name)

\* A pass over items that name one equipment twice, at two places, with a
\* line between them.
C13_Witness ==
    /\ run.op = "recognizeTags" /\ IsGiven(run.positions) /\ ~run.threw
    /\ Len(run.equipment) = 1
    /\ Len(run.line) = 1
    /\ Len(InputTexts) = 3
    /\ InputTexts[1] = InputTexts[3]
    /\ run.positions.value[1] # run.positions.value[3]

\* The name, rule, category and id of each tag of a list.
Identities(list) ==
    [k \in 1..Len(list) |->
        [name |-> list[k].name, patternName |-> list[k].patternName,
         category |-> list[k].category, id |-> list[k].id]]

\* C14: without positions, recognizeTags(text, null) returns an empty
\* instrument list, and its equipment and line tags are those that the
\* positional pass gives for items that carry the extracted tokens.
C14_SimpleModeHasNoInstruments ==
    (run.op = "recognizeTags" /\ ~IsGiven(run.positions)) =>
        LET tokens == extractTextTokens(textContent)
            items == [i \in 1..Len(tokens) |-> Item(tokens[i], 0, 0, 0, 0, 1)]
            positional == classifyItems(items, getActivePatterns, run.at)
        IN  /\ ~run.threw
            /\ run.instrument = << >>
            /\ Identities(run.equipment) = Identities(positional.equipment)
            /\ Identities(run.line) = Identities(positional.line)

\* A text with a number, an equipment tag and a line tag, read without
\* positions under a registry whose instrument rules are active.
C14_Witness ==
    /\ run.op = "recognizeTags" /\ ~IsGiven(run.positions)
    /\ "1234" \in Range(textContent)
    /\ HasOwn(getActivePatterns, "Instrument_number")
    /\ findMatchingPattern("1234").match
    /\ Len(run.equipment) + Len(run.line) > 0

\* C15: if the Instrument_number rule or the Instrument_function rule is not
\* in the active set, the matcher returns no instrument tag and throws
\* nothing, and the pass still gives every item that an equipment or line
\* rule matches its tag.
C15_MissingInstrumentRuleGivesNoInstruments ==
    (/\ run.op \in { "findInstrumentFunctions", "recognizeTags" }
     /\ IsGiven(run.positions)
     /\ \/ ~HasOwn(getActivePatterns, "Instrument_number")
        \/ ~HasOwn(getActivePatterns, "Instrument_function")) =>
        /\ ~run.threw
        /\ run.instrument = << >>
        /\ run.op = "recognizeTags" =>
              \A i \in 1..Len(run.positions.value) :
                  LET text == run.positions.value[i].text
                      matchResult == findMatchingPattern(text)
                  IN  (matchResult.match
                         /\ CategoryOf(matchResult) \in { "equipment", "line" }) =>
                        \E k \in 1..Len(run[CategoryOf(matchResult)]) :
                            run[CategoryOf(matchResult)][k].name = text

\* A pass over a number, a function code and an equipment tag while the
\* function rule is disabled.
C15_Witness ==
    /\ run.op = "recognizeTags" /\ IsGiven(run.positions)
    /\ HasOwn(getActivePatterns, "Instrument_number")
    /\ ~HasOwn(getActivePatterns, "Instrument_function")
    /\ { "1234", "PT", "V28-E-0003" } \subseteq Range(InputTexts)
    /\ Len(run.equipment) = 1

\* The names of the active rules whose source does not compile.
BrokenNames ==
    { n \in DOMAIN getActivePatterns.val :
        ~Compiles(getActivePatterns.val[n].pattern) }

\* The active set as it would be without those rules.
WithoutBroken ==
    LET kept == SelectSeq(getActivePatterns.keys, LAMBDA n : n \notin BrokenNames)
    IN  [keys |-> kept,
         val |-> [n \in Range(kept) |-> getActivePatterns.val[n]]]

\* C16: with a stored rule whose source does not compile, no recognition
\* call throws, the rule matches no text (it classifies none, a broken
\* number rule finds no number, a broken function rule gives no function),
\* and every text is classified as it is without that rule.
C16_BrokenRuleMatchesNothing ==
    LET broken == BrokenNames
        without == WithoutBroken
        active == getActivePatterns
    IN  broken # {} =>
            /\ run.op # "none" => ~run.threw
            /\ \A text \in Texts :
                  LET matchResult == findMatchingPatternOf(active, text)
                  IN  /\ matchResult.match => matchResult.name \notin broken
                      /\ matchResult = findMatchingPatternOf(without, text)
            /\ MatcherRan =>
                  /\ "Instrument_number" \in broken => run.instrument = << >>
                  /\ "Instrument_function" \in broken =>
                        \A i \in 1..Len(run.instrument) :
                            /\ run.instrument[i].name = run.instrument[i].number
                            /\ run.instrument[i].functionPosition = null

\* The matcher ran over a number and a function code above it while the
\* function rule does not compile.
C16_Witness ==
    /\ "Instrument_function" \in BrokenNames
    /\ MatcherRan
    /\ Item("PT", 98, 186, 14, 8, 1) \in Range(run.positions.value)
    /\ Len(run.instrument) > 0

\* A list of tags without the fields that are read from the clock.
WithoutTime(list) ==
    [k \in 1..Len(list) |->
        [f \in DOMAIN list[k] \ { "id", "created" } |-> list[k][f]]]

\* The next call is recognizeTags with the arguments of the last call, which
\* was recognizeTags too.
RecognizedAgain ==
    /\ run.op = "recognizeTags"
    /\ run'.op = "recognizeTags"
    /\ run'.positions = run.positions
    /\ run' # run
    /\ UNCHANGED << textContent, defaultPatterns, userPatterns >>

\* Two such calls return the same tags in the same order, except for the
\* ids and the creation times.
SameTagsApartFromTime ==
    [][RecognizedAgain =>
          /\ WithoutTime(run'.equipment) = WithoutTime(run.equipment)
          /\ WithoutTime(run'.line) = WithoutTime(run.line)
          /\ WithoutTime(run'.instrument) = WithoutTime(run.instrument)]_vars

\* C17: recognizeTags run twice on the same input with an unchanged registry
\* returns the same tags, with the same values of every field, ids included,
\* in the same order in every category.
C17_RecognizeTwiceGivesIdenticalTags ==
    [][RecognizedAgain =>
          /\ run'.equipment = run.equipment
          /\ run'.line = run.line
          /\ run'.instrument = run.instrument]_vars

\* What findInstrumentFunctions gives for the input of the last call on a
\* matcher that has made no call before.
OnFreshMatcher ==
    findInstrumentFunctionsOn(ConstructedSearchHeight, run.positions.value,
                              getActivePatterns, run.at)

\* C18: the search height, the selected functions and the functionPosition
\* that a call of the matcher computes for its input are those that a matcher
\* without earlier calls computes for it, whatever calls came before.
C18_MatcherKeepsNoState ==
    MatcherRan =>
        /\ run.height = OnFreshMatcher.height
        /\ defaultSearchHeight = OnFreshMatcher.defaultSearchHeight
        /\ Len(run.instrument) = Len(OnFreshMatcher.tags)
        /\ \A i \in 1..Len(run.instrument) :
              /\ run.instrument[i].function = OnFreshMatcher.tags[i].function
              /\ run.instrument[i].functionPosition =
                    OnFreshMatcher.tags[i].functionPosition

\* The call was made on a matcher that an earlier call on another input had
\* left with a search height that is neither the constructor's nor that of
\* this input; the input is empty or has no item with a height.
C18_Witness ==
    /\ MatcherRan
    /\ run.before.defaultSearchHeight # ConstructedSearchHeight
    /\ run.before.defaultSearchHeight # run.height
    /\ \A i \in 1..Len(run.positions.value) : run.positions.value[i].height = 0

\* C19: after a recognition call the input items are what and where they
\* were, in the same order, and the registry holds the same rules with the
\* same fields as before the call.
C19_RecognitionLeavesInputsUnchanged ==
    run.op # "none" =>
        /\ textWithPositions = run.before.textWithPositions
        /\ IsGiven(run.positions) =>
              run.positions.value = run.before.textWithPositions
        /\ defaultPatterns = run.before.defaultPatterns
        /\ userPatterns = run.before.userPatterns

\* The matcher ran over three items that are in the reverse of the order of
\* their y and gave the number its function code.
C19_Witness ==
    /\ MatcherRan
    /\ Len(textWithPositions) = 3
    /\ textWithPositions[1].y > textWithPositions[2].y
    /\ textWithPositions[2].y > textWithPositions[3].y
    /\ Len(run.instrument) = 1
    /\ run.instrument[1].name = "PT-1234"
    /\ run.instrument[1].functionPosition = textWithPositions[2]

\* C20: the search height that a run of the matcher computes and uses is at
\* least the floor, for every input: also for no item, for items without a
\* height, for small text and for small or no spacings.
C20_SearchHeightAtLeastFloor ==
    (run.op \in { "findInstrumentFunctions", "recognizeTags" }
        /\ IsGiven(run.positions)) =>
        /\ run.height.num >= MinimumSearchHeight * run.height.den
        /\ defaultSearchHeight = run.height

\* The matcher emitted a tag using a height that is exactly the floor: the
\* text is small and no function code is near the number.
C20_Witness ==
    /\ MatcherRan
    /\ Len(run.instrument) > 0
    /\ \E i \in 1..Len(textWithPositions) :
          /\ textWithPositions[i].height > 0
          /\ 5 * textWithPositions[i].height < MinimumSearchHeight
    /\ run.height.num = MinimumSearchHeight * run.height.den

----------------------------------------------------------------------------
(* Properties of matching.                                                 *)

\* The last call was findInstrumentFunctions and it returned.
FoundFunctions ==
    run.op = "findInstrumentFunctions" /\ ~run.threw

\* The item is a number, or a function code, under the active rules.
IsNumber(item) ==
    testPattern(getActivePatterns.val["Instrument_number"].pattern, item.text)

IsFunction(item) ==
    testPattern(getActivePatterns.val["Instrument_function"].pattern,
                item.text)

\* The fraction a is at least the fraction b.
AtLeast(a, b) == a.num * b.den >= b.num * a.den

\* The vertical distance of the items at i and j.
Spacing(items, pair) == Abs(items[pair[1]].y - items[pair[2]].y)

\* The indices of the numbers and of the function codes of the items.
NumberIndices(items) == { i \in 1..Len(items) : IsNumber(items[i]) }

FunctionIndices(items) == { j \in 1..Len(items) : IsFunction(items[j]) }

\* The pairs (number, function code) of one page of the items that are near
\* each other and not on one line: the observed spacings are theirs.
ObservedPairs(items) ==
    { pair \in NumberIndices(items) \X FunctionIndices(items) :
        /\ items[pair[1]].page = items[pair[2]].page
        /\ Spacing(items, pair) > 0
        /\ Spacing(items, pair) < 80
        /\ Abs(CenterX2(items[pair[1]]) - CenterX2(items[pair[2]])) < 2 * 100 }

\* The 75th percentile of the spacings of a non-empty set of pairs: the
\* spacing that has at most three quarters of the pairs below it and more
\* than three quarters at or below it.
Percentile75(items, pairs) ==
    CHOOSE d \in { Spacing(items, pair) : pair \in pairs } :
        /\ Cardinality({ pair \in pairs : Spacing(items, pair) < d })
              <= (3 * Cardinality(pairs)) \div 4
        /\ Cardinality({ pair \in pairs : Spacing(items, pair) <= d })
              > (3 * Cardinality(pairs)) \div 4

\* The items of the pool that differ from the item in y at most.
Alternatives(item) ==
    { other \in MatchItems : [other EXCEPT !.y = item.y] = item }

\* The drawings that differ from the items in the y of items only.
Respacings(items) ==
    LET upTo[k \in 0..Len(items)] ==
            IF k = 0 THEN { << >> }
            ELSE { Append(drawing, other) :
                     drawing \in upTo[k - 1],
                     other \in Alternatives(items[k]) }
    IN  upTo[Len(items)]

\* C21: for two drawings that differ only in the y of their items and both
\* have observed function-to-number spacings, if the 75th percentile of the
\* spacings of the second is at least that of the first, the searchHeight
\* computed by adjustSearchParameters for the second is at least that
\* computed for the first.
C21_SearchHeightMonotoneInSpacing ==
    (FoundFunctions /\ ObservedPairs(run.positions.value) # {}) =>
        LET items == run.positions.value
            active == getActivePatterns
            p75 == Percentile75(items, ObservedPairs(items))
        IN  \A respaced \in Respacings(items) :
                LET pairs == ObservedPairs(respaced)
                IN  (pairs # {} /\ Percentile75(respaced, pairs) >= p75)
                    => AtLeast(adjustSearchParameters(
                                   run.before.defaultSearchHeight, respaced,
                                   active),
                               run.height)

\* A drawing was matched of which a respacing has a greater 75th percentile
\* and a greater searchHeight, and another a greater percentile and the same
\* searchHeight.
C21_Witness ==
    /\ FoundFunctions
    /\ ObservedPairs(run.positions.value) # {}
    /\ \E wider, same \in Respacings(run.positions.value) :
          /\ ObservedPairs(wider) # {}
          /\ ObservedPairs(same) # {}
          /\ Percentile75(wider, ObservedPairs(wider))
                > Percentile75(run.positions.value,
                               ObservedPairs(run.positions.value))
          /\ Percentile75(same, ObservedPairs(same))
                > Percentile75(run.positions.value,
                               ObservedPairs(run.positions.value))
          /\ ~AtLeast(run.height,
                      adjustSearchParameters(run.before.defaultSearchHeight,
                                             wider, getActivePatterns))
          /\ run.height = adjustSearchParameters(run.before.defaultSearchHeight,
                                                 same, getActivePatterns)

\* The items of one page of a batch, in input order.
PageOf(items, page) == SelectSeq(items, LAMBDA item : item.page = page)

\* The number, the selected function and the name of each tag.
FunctionsAndNames(tags) ==
    [i \in 1..Len(tags) |->
        [number |-> tags[i].numberPosition, function |-> tags[i].function,
         name |-> tags[i].name]]

\* C22: the instrument tags (number item, selected function, name) that a
\* call on a batch returns for the items of a page are those that a call on
\* the items of that page alone returns.
C22_PagesAreIndependent ==
    FoundFunctions =>
        \A page \in { item.page : item \in Range(run.positions.value) } :
            FunctionsAndNames(
                SelectSeq(run.instrument,
                          LAMBDA tag : tag.numberPosition.page = page))
            = FunctionsAndNames(
                  findInstrumentFunctionsOn(ConstructedSearchHeight,
                      PageOf(run.positions.value, page), getActivePatterns,
                      run.at).tags)

\* The number items of the last call.
MatchedNumbers == { item \in Range(run.positions.value) : IsNumber(item) }

\* The primary candidates of a number item in the last call.
CandidatesOfRun(N) ==
    Range(candidateFunctionsOf(run.positions.value, N,
              getActivePatterns.val["Instrument_function"], run.height))

\* F is on the page of N, its text matches the function rule, its y is in
\* [N.y - searchHeight, N.y + N.height + 3] and its horizontal midpoint is
\* within max(2.0 * N.width, 20) of that of N.
InSearchWindow(F, N, searchHeight) ==
    /\ F.page = N.page
    /\ IsFunction(F)
    /\ searchHeight.den * F.y >= searchHeight.den * N.y - searchHeight.num
    /\ F.y <= N.y + N.height + 3
    /\ Abs((2 * F.x + F.width) - (2 * N.x + N.width))
          <= 2 * Max(2 * N.width, 20)

\* C23: an item F is a primary candidate of a number item N if and only if
\* F is on the page of N, F.text matches the function rule, F.y is in the
\* closed band [N.y - searchHeight, N.y + N.height + 3] and the horizontal
\* midpoint of F is within max(2.0 * N.width, 20) of that of N; an item of
\* another page is never a candidate.
C23_CandidateIffInSearchWindow ==
    FoundFunctions =>
        \A N \in MatchedNumbers :
            \A F \in Range(run.positions.value) :
                /\ F \in CandidatesOfRun(N)
                      <=> InSearchWindow(F, N, run.height)
                /\ F.page # N.page => F \notin CandidatesOfRun(N)

\* A number has a candidate on the lower edge of the band, and the drawing
\* has a function code on another page at a place inside the band.
C23_Witness ==
    /\ FoundFunctions
    /\ \E N \in MatchedNumbers :
          /\ \E F \in CandidatesOfRun(N) : F.y = N.y + N.height + 3
          /\ \E F \in Range(run.positions.value) \ CandidatesOfRun(N) :
                /\ IsFunction(F)
                /\ F.page # N.page
                /\ InSearchWindow([F EXCEPT !.page = N.page], N, run.height)

\* The items in the search window of a number item of the last call.
WindowOf(N) ==
    { F \in Range(run.positions.value) : InSearchWindow(F, N, run.height) }

\* The item whose text was selected for a number item in the last call, or
\* null.
SelectedItem(N) ==
    functionItemFor(run.positions.value, N,
        getActivePatterns.val["Instrument_function"], run.height)

\* The score of a candidate F of N, times four.
Score4(F, N) ==
    Abs((2 * F.x + F.width) - (2 * N.x + N.width))
        + 4 * Abs(2 * F.y - (2 * N.y + N.height))

\* The tags that the last call returned for the number item N.
TagsOf(N) ==
    { i \in 1..Len(run.instrument) : run.instrument[i].numberPosition = N }

\* C24: whenever at least one primary candidate of a number item N is above
\* it (F.y < N.y), the selected function is a candidate above N, whatever
\* the scores of the candidates that are not above; a candidate that is not
\* above N is selected only when no candidate is above.
C24_CandidatesAbovePreferred ==
    FoundFunctions =>
        \A N \in MatchedNumbers :
            /\ (\E F \in WindowOf(N) : F.y < N.y) =>
                  /\ SelectedItem(N) \in WindowOf(N)
                  /\ SelectedItem(N).y < N.y
                  /\ \A i \in TagsOf(N) :
                        run.instrument[i].function
                            = String(SelectedItem(N).text)
            /\ (SelectedItem(N) \in WindowOf(N) /\ SelectedItem(N).y >= N.y) =>
                  \A F \in WindowOf(N) : F.y >= N.y

\* A number has a candidate above it and a candidate not above it with a
\* strictly lower score, and the one above was selected.
C24_Witness ==
    /\ FoundFunctions
    /\ \E N \in MatchedNumbers :
          /\ SelectedItem(N) \in WindowOf(N)
          /\ SelectedItem(N).y < N.y
          /\ \E F \in WindowOf(N) :
                /\ F.y >= N.y
                /\ Score4(F, N) < Score4(SelectedItem(N), N)
          /\ TagsOf(N) # {}

\* The candidates considered for a number item of the last call: those
\* above it if there are any, else all of them.
ConsideredFor(N) ==
    IF \E F \in WindowOf(N) : F.y < N.y
    THEN { F \in WindowOf(N) : F.y < N.y }
    ELSE WindowOf(N)

\* The place of an item in the input of the last call.
InputIndex(F) ==
    CHOOSE i \in 1..Len(run.positions.value) : run.positions.value[i] = F

\* C25: among the candidates considered for a number item N the selected one
\* has the least score 0.5 * |F midpoint x - N midpoint x| + 2.0 * |F.y - N
\* vertical centre|, and among those of least score it is the first in input
\* order; of two considered candidates at the same horizontal distance the
\* one vertically farther from the centre of N is not selected.
C25_LeastScoreFirstInInputOrder ==
    FoundFunctions =>
        \A N \in MatchedNumbers :
            ConsideredFor(N) # {} =>
                /\ SelectedItem(N) \in ConsideredFor(N)
                /\ \A F \in ConsideredFor(N) :
                      /\ Score4(SelectedItem(N), N) <= Score4(F, N)
                      /\ Score4(SelectedItem(N), N) = Score4(F, N) =>
                            InputIndex(SelectedItem(N)) <= InputIndex(F)
                /\ \A F, G \in ConsideredFor(N) :
                      /\ Abs((2 * F.x + F.width) - (2 * N.x + N.width))
                            = Abs((2 * G.x + G.width) - (2 * N.x + N.width))
                      /\ Abs(2 * F.y - (2 * N.y + N.height))
                            < Abs(2 * G.y - (2 * N.y + N.height))
                      => SelectedItem(N) # G
                /\ \A i \in TagsOf(N) :
                      run.instrument[i].function
                          = String(SelectedItem(N).text)

\* Two candidates above a number at the same horizontal distance, the
\* farther one first in the input, and the nearer one was selected.
C25_Witness ==
    /\ FoundFunctions
    /\ \E N \in MatchedNumbers :
          \E F \in ConsideredFor(N) :
              /\ F # SelectedItem(N)
              /\ InputIndex(F) < InputIndex(SelectedItem(N))
              /\ Abs((2 * F.x + F.width) - (2 * N.x + N.width))
                    = Abs((2 * SelectedItem(N).x + SelectedItem(N).width)
                          - (2 * N.x + N.width))
              /\ Score4(SelectedItem(N), N) < Score4(F, N)

\* The items of the page of N whose text matches the function rule.
PageFunctions(N) ==
    { F \in Range(run.positions.value) : F.page = N.page /\ IsFunction(F) }

\* Four times the square of the distance of the centroids of F and N.
Distance4(F, N) ==
    ((2 * F.x + F.width) - (2 * N.x + N.width))
        * ((2 * F.x + F.width) - (2 * N.x + N.width))
    + ((2 * F.y + F.height) - (2 * N.y + N.height))
        * ((2 * F.y + F.height) - (2 * N.y + N.height))

\* The function item of the page of N nearest to N, the first in input
\* order of those at the least distance.
Nearest(N) ==
    CHOOSE F \in PageFunctions(N) :
        \A G \in PageFunctions(N) :
            \/ Distance4(F, N) < Distance4(G, N)
            \/ Distance4(F, N) = Distance4(G, N)
                  /\ InputIndex(F) <= InputIndex(G)

\* C26: if a number item N has a primary candidate, the selected item is a
\* primary candidate; if it has none, the selected item is the function item
\* of its page nearest to it by centroid distance (the first in input order
\* of the nearest) provided that distance is strictly below 100, and nothing
\* is selected otherwise: no function at distance 100 or more is selected by
\* the fallback.
C26_FallbackNearestBelowCeiling ==
    FoundFunctions =>
        \A N \in MatchedNumbers :
            /\ WindowOf(N) # {} => SelectedItem(N) \in WindowOf(N)
            /\ WindowOf(N) = {} =>
                  /\ SelectedItem(N) =
                        IF PageFunctions(N) # {}
                              /\ Distance4(Nearest(N), N) < 4 * 100 * 100
                        THEN Nearest(N)
                        ELSE null
                  /\ SelectedItem(N) # null =>
                        Distance4(SelectedItem(N), N) < 4 * 100 * 100
            /\ \A i \in TagsOf(N) :
                  run.instrument[i].name =
                      IF SelectedItem(N) = null THEN N.text
                      ELSE SelectedItem(N).text \o "-" \o N.text

\* A number without a primary candidate got the first of two function items
\* of its page at the same least distance.
C26_Witness ==
    /\ FoundFunctions
    /\ \E N \in MatchedNumbers :
          /\ WindowOf(N) = {}
          /\ SelectedItem(N) # null
          /\ \E F \in PageFunctions(N) :
                /\ F # SelectedItem(N)
                /\ Distance4(F, N) = Distance4(SelectedItem(N), N)
                /\ InputIndex(SelectedItem(N)) < InputIndex(F)
          /\ \E i \in TagsOf(N) :
                run.instrument[i].name = SelectedItem(N).text \o "-" \o N.text

\* The pairs (number, function code) of one page of the items with vertical
\* distance below 80 and horizontal centroid distance below 100, those on
\* one line included.
NearPairs(items) ==
    { pair \in NumberIndices(items) \X FunctionIndices(items) :
        /\ items[pair[1]].page = items[pair[2]].page
        /\ Spacing(items, pair) < 80
        /\ Abs(CenterX2(items[pair[1]]) - CenterX2(items[pair[2]])) < 2 * 100 }

\* The indices of the items with a height.
WithHeight(items) == { i \in 1..Len(items) : items[i].height > 0 }

\* The sum of the heights of the items at the indices.
RECURSIVE HeightSum(_, _)
HeightSum(items, indices) ==
    IF indices = {} THEN 0
    ELSE LET i == CHOOSE i \in indices : TRUE
         IN  items[i].height + HeightSum(items, indices \ {i})

\* max(5 * mean height of the items with a height, 15), as a fraction.
Provisional(items) ==
    [num |-> Max(5 * HeightSum(items, WithHeight(items)),
                 15 * Cardinality(WithHeight(items))),
     den |-> Cardinality(WithHeight(items))]

\* The searchHeight that the rule of the two steps gives with these pairs:
\* the provisional one without pairs, else max(1.3 * p75, provisional, 20).
SearchHeightFrom(items, pairs) ==
    IF pairs = {} THEN Provisional(items)
    ELSE [num |-> Max(Max(13 * Percentile75(items, pairs)
                              * Provisional(items).den,
                          10 * Provisional(items).num),
                      10 * 20 * Provisional(items).den),
          den |-> 10 * Provisional(items).den]

\* The fractions are equal.
SameFraction(a, b) == a.num * b.den = b.num * a.den

\* C27 as stated: searchHeight is max(5 * mean height, floor), raised to
\* max(1.3 * p75, provisional, 20) if some pair (number, function) of one
\* page has vertical distance below 80 and horizontal centroid distance
\* below 100, p75 being the 75th percentile of the vertical distances of all
\* such pairs.
C27_SearchHeightFromAllNearPairs ==
    (FoundFunctions /\ WithHeight(run.positions.value) # {}) =>
        SameFraction(run.height,
                     SearchHeightFrom(run.positions.value,
                                      NearPairs(run.positions.value)))

\* C27, amended: searchHeight is max(5 * mean height of the items with a
\* height, 15), raised to max(1.3 * p75, provisional, 20) if some pair
\* (number, function) of one page has vertical distance above 0 and below 80
\* and horizontal centroid distance below 100, p75 being the 75th percentile
\* of the vertical distances of those pairs; a pair on one line (vertical
\* distance 0) contributes nothing.
C27_SearchHeightFromPairsNotLevel ==
    (FoundFunctions /\ WithHeight(run.positions.value) # {}) =>
        SameFraction(run.height,
                     SearchHeightFrom(run.positions.value,
                                      ObservedPairs(run.positions.value)))

\* A drawing with a pair on one line and a pair that is not, for which
\* 1.3 * p75 is the searchHeight.
C27_Witness ==
    /\ FoundFunctions
    /\ NearPairs(run.positions.value) # ObservedPairs(run.positions.value)
    /\ ObservedPairs(run.positions.value) # {}
    /\ 10 * run.height.num
          = 13 * Percentile75(run.positions.value,
                              ObservedPairs(run.positions.value))
               * run.height.den
    /\ ~SameFraction(run.height, Provisional(run.positions.value))

\* The input of the last call without the number items other than N.
WithoutOtherNumbers(N) ==
    SelectSeq(run.positions.value, LAMBDA item : item = N \/ ~IsNumber(item))

\* The call returned exactly one tag per number item of the input, in the
\* input order of the number items.
OneTagPerNumberInOrder ==
    (FoundFunctions /\ ~missingInstrumentRule(getActivePatterns)) =>
        /\ Len(run.instrument) = Len(NumbersOfRun)
        /\ \A i \in 1..Len(run.instrument) :
              run.instrument[i].numberPosition = NumbersOfRun[i]

\* The function of the tag of each number item is the one the call returns
\* for it when the other number items are not in the input.
FunctionWithoutOtherNumbers ==
    (FoundFunctions /\ ~missingInstrumentRule(getActivePatterns)) =>
        \A i \in 1..Len(run.instrument) :
            run.instrument[i].function
                = findInstrumentFunctionsOn(ConstructedSearchHeight,
                      WithoutOtherNumbers(run.instrument[i].numberPosition),
                      getActivePatterns, run.at).tags[1].function

\* C28: with both instrument rules active, findInstrumentFunctions returns
\* exactly one tag per number item of the input, in the input order of the
\* number items, and the function chosen for a number item does not depend
\* on which other number items are in the input.
C28_OneTagPerNumberIndependently ==
    OneTagPerNumberInOrder /\ FunctionWithoutOtherNumbers

\* C29: under every active rule set, the function selected for a number item
\* N, by the primary search or by the fallback, is the text of an item other
\* than N itself, and no tag has the item of its number as the item of its
\* function.
C29_NumberNeverFusedWithItself ==
    FoundFunctions =>
        /\ \A N \in MatchedNumbers : SelectedItem(N) # N
        /\ \A i \in 1..Len(run.instrument) :
              run.instrument[i].functionPosition
                  # run.instrument[i].numberPosition

----------------------------------------------------------------------------
(* Properties of the stored registry.                                      *)

\* C30: after any sequence of completed registry calls, a new PatternManager
\* constructed over the same storage and initialised has a
\* getActivePatterns() with the same ids and, per id, the same regex,
\* category and enabled flag as the registry that wrote the storage.
C30_ReloadGivesSameActiveSet ==
    EquivalentActive(activePatternsAfterReload(storage), getActivePatterns)

====
